---- MODULE Spec2Model ----
(***************************************************************************)
(* Restart-coordination core of debug-mcp-go-wrapper.                      *)
(*                                                                         *)
(*   internal/proxy/proxy.go   Proxy: Run, restartPHP, proxyStdin,         *)
(*                             proxyStdout, monitorProcess                 *)
(*   internal/proxy/buffer.go  MessageBuffer: Add, Replay, Len, Clear      *)
(*                                                                         *)
(* internal/proxy/process.go (PHPProcess) is not among the sources; its    *)
(* Start/Stop/Wait/Stdin/Stdout are modelled from the WorkerHandle         *)
(* contract of spec.md section 4.1.                                        *)
(*                                                                         *)
(* Every goroutine is a process with a program counter.  One action is one *)
(* access to shared memory (p.process, p.restarting, the buffer under its  *)
(* mutex, a worker pipe); the goroutines interleave between such accesses, *)
(* because p.process and p.restarting are plain fields without a lock.     *)
(***************************************************************************)
EXTENDS Integers, Sequences, FiniteSets, TLC

\* ---------------------------------------------------------------- bounds
MaxInput == 2       \* chunks the external input delivers
MaxEvents == 2      \* timer ticks, unsolicited exits, failed spawns and stop errors
BufferSize == 2     \* cfg.BufferSize handed to NewProxy
MaxCap == 3         \* buffer capacities tried by the buffer harness
MaxOps == 5         \* buffer operations per harness run
ByteVals == 2       \* distinct chunk contents of the buffer harness

\* every allocation follows a tick, a shutdown stop, a crash or a failed spawn
MaxHandles == 2 + (2 * MaxEvents)

Handles == 1..MaxHandles
NoHandle == 0

VARIABLES
    process,      \* p.process: the current handle
    restarting,   \* p.restarting
    messages,     \* p.buffer.messages
    maxSize,      \* p.buffer.maxSize
    mu,           \* p.buffer.mu: TRUE while Replay holds it across its writes
    hstate,       \* per handle: state of the PHPProcess object and its worker
    cancelled,    \* ctx.Done() is closed
    mainPc,       \* position of Run / restartPHP
    monPc,        \* position of monitorProcess
    inPc,         \* position of proxyStdin
    outPc,        \* position of proxyStdout
    monH,         \* handle monitorProcess called Wait on
    monErr,       \* err returned by that Wait is non-nil
    outH,         \* handle whose Stdout proxyStdout reads
    message,      \* proxyStdin's current chunk (0: none)
    nextIn,       \* chunks read from the external input so far
    replaySink,   \* handle whose Stdin was handed to Replay
    replayIdx,    \* index of Replay's range loop
    err,          \* restartPHP's result, from its return until Run has logged it
    delivered,    \* writes that reached a worker's input sink, in order
    events,       \* timer ticks, unsolicited exits, failed spawns, stop errors so far
    cycleAdded,   \* history: chunks added during the running restart cycle, not evicted
    cycle,        \* history: the running restart cycle's stop error and spawned handle
    added,        \* harness history: chunks added since the buffer was last emptied
    lastOp,       \* harness history: the latest buffer operation and its result
    prevOp        \* harness history: the operation before it

bufVars == <<messages, maxSize, mu>>
mainVars == <<mainPc, err, replaySink, replayIdx>>
monVars == <<monPc, monH, monErr>>
inVars == <<inPc, message, nextIn>>
outVars == <<outPc, outH>>
envVars == <<cancelled, events>>
histVars == <<delivered, cycleAdded, cycle>>
harnessVars == <<added, lastOp, prevOp>>
proxyVars == <<process, restarting, hstate, mainVars, monVars, inVars, outVars,
               envVars, histVars>>
vars == <<proxyVars, bufVars, harnessVars>>

\* ------------------------------------------------------- MessageBuffer
Min(a, b) == IF a < b THEN a ELSE b

Tail1(s) == SubSeq(s, 2, Len(s))

\* Mutant of Add: the capacity test is off by one.
AddOffByOne(msgs, cap, m) ==
    LET kept == IF Len(msgs) > cap THEN SubSeq(msgs, 2, Len(msgs)) ELSE msgs
    IN  Append(kept, m)

\* Add: evict the oldest message of a full buffer, then append a copy.
Add(msgs, cap, m) ==
    LET kept == IF Len(msgs) >= cap THEN Tail1(msgs) ELSE msgs
    IN  Append(kept, m)

\* Mutant of Stored: the entry shares the caller's read buffer.
StoredAlias(kept, m) == m

\* Add, lines 35-36: an entry is a private copy of the message.  The entry
\* that holds bytes kept still holds them after the caller has overwritten
\* its read buffer with m.
Stored(kept, m) == kept

\* The buffer's entries after the caller has read m into its read buffer.
Overwrite(msgs, m) == [i \in 1..Len(msgs) |-> Stored(msgs[i], m)]

\* Replay's writes when the writer accepts n writes before it fails.
ReplayWritten(msgs, n) == SubSeq(msgs, 1, Min(n, Len(msgs)))

\* Mutant of ReplayLeft: the buffer is not cleared.
ReplayLeftKeep(msgs, n) == msgs

\* Mutant of ReplayLeft: a failed replay drops the chunks it has written.
ReplayLeftDrop(msgs, n) ==
    IF n >= Len(msgs) THEN <<>> ELSE SubSeq(msgs, n + 1, Len(msgs))

\* Replay's buffer afterwards: cleared only when no write failed.
ReplayLeft(msgs, n) == IF n >= Len(msgs) THEN <<>> ELSE msgs

\* Len
BufLen(msgs) == Len(msgs)

\* Clear
Clear(msgs) == <<>>

\* ---------------------------------------------------------- PHPProcess
\* A handle is "unalloc" (not yet created), "new" (created, never started),
\* "failed" (its spawn failed), "live" (its worker runs), or its worker is
\* gone: "stopped" (by Stop), "crashed" (it exited on its own while
\* p.restarting was false) or "died" (it exited on its own during a restart).
Gone == {"stopped", "crashed", "died"}

IsLive(h) == h \in Handles /\ hstate[h] = "live"

\* Wait blocks while the worker runs; otherwise it returns at once.
WaitReturns(h) == ~IsLive(h)

\* The errors Wait may return (TRUE: non-nil).  A worker that is gone exited
\* with status 0 (nil) or not; a handle without a worker gives an error.
WaitErrs(h) == IF h \in Handles /\ hstate[h] \in Gone THEN BOOLEAN ELSE {TRUE}

\* NewPHPProcess: a fresh handle object, not started.
NewPHPProcess == CHOOSE h \in Handles : hstate[h] = "unalloc" /\
                    \A g \in Handles : hstate[g] = "unalloc" => h <= g

CanAlloc == \E h \in Handles : hstate[h] = "unalloc"

\* Start on handle h: ok tells whether the spawn succeeds.  Only a handle
\* that was never started can be started.
StartOk(h, ok) == ok /\ hstate[h] = "new"

Started(h, ok) ==
    IF hstate[h] = "new"
    THEN [hstate EXCEPT ![h] = IF ok THEN "live" ELSE "failed"]
    ELSE hstate

\* Stop on handle h: a running worker is terminated (gracefully, or by kill
\* after the grace period) and has exited when Stop returns.  A worker that
\* is already gone is left alone.
Stopped(h) ==
    IF hstate[h] = "live" THEN [hstate EXCEPT ![h] = "stopped"] ELSE hstate

\* Stop on handle h with result e (TRUE: StopError, the signal or the kill
\* failed and the worker runs on).
StoppedWith(h, e) == IF e THEN hstate ELSE Stopped(h)

\* The state of a handle whose worker exits on its own.
Exited(flag) == IF flag THEN "died" ELSE "crashed"

\* Write to the input sink of h succeeds only while its worker runs.
WriteOk(h) == IsLive(h)

\* Read from the output source of h yields data only while its worker runs.
ReadOk(h) == IsLive(h)

\* --------------------------------------------------------------- state
\* A buffer operation of the harness: its name, its number, its argument,
\* the buffer before it, what it wrote, whether it succeeded, what it returned.
NoOp == [op |-> "none", n |-> 0, arg |-> 0, before |-> <<>>, wrote |-> <<>>,
         ok |-> TRUE, len |-> 0]

\* No restart cycle is running.
NoCycle == [stopErr |-> FALSE, h |-> NoHandle]

\* NewProxy: a handle that is not started, an empty buffer, the flag false.
InitWith(cap) ==
    /\ process = 1
    /\ hstate = [h \in Handles |-> IF h = 1 THEN "new" ELSE "unalloc"]
    /\ restarting = FALSE
    /\ messages = <<>>
    /\ maxSize = cap
    /\ mu = FALSE
    /\ cancelled = FALSE
    /\ mainPc = "start"
    /\ monPc = "off" /\ inPc = "off" /\ outPc = "off"
    /\ monH = NoHandle /\ monErr = FALSE /\ outH = NoHandle
    /\ message = 0 /\ nextIn = 0
    /\ replaySink = NoHandle /\ replayIdx = 0
    /\ err = "none"
    /\ delivered = <<>>
    /\ events = 0
    /\ cycleAdded = <<>>
    /\ cycle = NoCycle
    /\ added = <<>>
    /\ lastOp = NoOp
    /\ prevOp = NoOp

Init == InitWith(BufferSize)

\* Outcomes a spawn may have: a failure is an event of the environment.
SpawnOutcomes == IF events < MaxEvents THEN BOOLEAN ELSE {TRUE}

FailCount(h, ok) == IF hstate[h] = "new" /\ ~ok THEN events + 1 ELSE events

\* Results the stop of a restart cycle may have: an error is an event of
\* the environment, and only the stop of a running worker can fail.
StopOutcomes == IF events < MaxEvents /\ IsLive(process) THEN BOOLEAN ELSE {FALSE}

\* ----------------------------------------------------------------- Run
\* Mutant of RunStart: the activities are started before the error is looked at.
RunStartEager(ok) ==
    /\ mainPc = "start"
    /\ hstate' = Started(process, ok)
    /\ events' = FailCount(process, ok)
    /\ mainPc' = IF StartOk(process, ok) THEN "loop" ELSE "failed"
    /\ monPc' = "top" /\ inPc' = "read" /\ outPc' = "top"
    /\ UNCHANGED <<process, restarting, bufVars, err, replaySink, replayIdx, monH,
                   monErr, message, nextIn, outH, cancelled, histVars, harnessVars>>

\* Run, lines 37-49: the first spawn; on failure return the error, otherwise
\* start the monitor and the two forwarders and enter the main loop.
RunStart(ok) ==
    /\ mainPc = "start"
    /\ hstate' = Started(process, ok)
    /\ events' = FailCount(process, ok)
    /\ IF StartOk(process, ok)
       THEN /\ mainPc' = "loop"
            /\ monPc' = "top" /\ inPc' = "read" /\ outPc' = "top"
       ELSE /\ mainPc' = "failed"
            /\ UNCHANGED <<monPc, inPc, outPc>>
    /\ UNCHANGED <<process, restarting, bufVars, err, replaySink, replayIdx, monH,
                   monErr, message, nextIn, outH, cancelled,
                   histVars, harnessVars>>

\* Run, lines 54-56 and restartPHP, line 80: the ticker fires, the flag is set.
Tick ==
    /\ mainPc = "loop"
    /\ events < MaxEvents
    /\ events' = events + 1
    /\ restarting' = TRUE
    /\ mainPc' = "r_stop"
    /\ UNCHANGED <<process, hstate, bufVars, err, replaySink, replayIdx, monVars,
                   inVars, outVars, cancelled, histVars, harnessVars>>

\* restartPHP, lines 86-88: stop the old worker; an error e is only logged.
RStop(e) ==
    /\ mainPc = "r_stop"
    /\ hstate' = StoppedWith(process, e)
    /\ events' = IF e THEN events + 1 ELSE events
    /\ cycle' = [cycle EXCEPT !.stopErr = e]
    /\ mainPc' = "r_new"
    /\ UNCHANGED <<process, restarting, bufVars, err, replaySink, replayIdx, monVars,
                   inVars, outVars, cancelled, delivered, cycleAdded, harnessVars>>

\* restartPHP, line 91: p.process = NewPHPProcess().
RNew ==
    /\ mainPc = "r_new"
    /\ CanAlloc
    /\ process' = NewPHPProcess
    /\ hstate' = [hstate EXCEPT ![NewPHPProcess] = "new"]
    /\ mainPc' = "r_start"
    /\ UNCHANGED <<restarting, bufVars, err, replaySink, replayIdx, monVars, inVars,
                   outVars, envVars, histVars, harnessVars>>

\* restartPHP, lines 94-96: start the new worker; on failure return the error.
RStart(ok) ==
    /\ mainPc = "r_start"
    /\ hstate' = Started(process, ok)
    /\ events' = FailCount(process, ok)
    /\ cycle' = [cycle EXCEPT !.h = process]
    /\ IF StartOk(process, ok)
       THEN mainPc' = "r_len" /\ UNCHANGED err
       ELSE mainPc' = "r_ret" /\ err' = "spawn"
    /\ UNCHANGED <<process, restarting, bufVars, replaySink, replayIdx, monVars,
                   inVars, outVars, cancelled, delivered, cycleAdded, harnessVars>>

\* restartPHP, lines 99-100: bufferLen := p.buffer.Len().
RLen ==
    /\ mainPc = "r_len"
    /\ ~mu
    /\ IF BufLen(messages) > 0
       THEN mainPc' = "r_call" /\ UNCHANGED err
       ELSE mainPc' = "r_ret" /\ err' = "ok"
    /\ UNCHANGED <<process, restarting, hstate, bufVars, replaySink, replayIdx,
                   monVars, inVars, outVars, envVars, histVars, harnessVars>>

\* restartPHP, line 102 and Replay, lines 43-46: the writer is the current
\* handle's Stdin; Replay takes the lock and starts its loop.
RReplayBegin ==
    /\ mainPc = "r_call"
    /\ ~mu
    /\ mu' = TRUE
    /\ replaySink' = process
    /\ replayIdx' = 1
    /\ mainPc' = "r_replay"
    /\ UNCHANGED <<process, restarting, hstate, messages, maxSize, err, monVars,
                   inVars, outVars, envVars, histVars, harnessVars>>

\* Mutant of RReplayWrite: a failed write is skipped and the loop goes on.
RReplayWriteOn ==
    /\ mainPc = "r_replay"
    /\ replayIdx <= Len(messages)
    /\ delivered' = IF WriteOk(replaySink)
                    THEN Append(delivered,
                                [h |-> replaySink, c |-> messages[replayIdx]])
                    ELSE delivered
    /\ replayIdx' = replayIdx + 1
    /\ UNCHANGED <<process, restarting, hstate, bufVars, mainPc, err, replaySink,
                   monVars, inVars, outVars, envVars, cycleAdded, cycle, harnessVars>>

\* Replay, lines 46-50: one write of the loop; a failed write returns the
\* error with the buffer as it is (restartPHP, line 103, passes it on).
RReplayWrite ==
    /\ mainPc = "r_replay"
    /\ replayIdx <= Len(messages)
    /\ IF WriteOk(replaySink)
       THEN /\ delivered' = Append(delivered,
                                   [h |-> replaySink, c |-> messages[replayIdx]])
            /\ replayIdx' = replayIdx + 1
            /\ UNCHANGED <<messages, mu, mainPc, err, replaySink>>
       ELSE /\ messages' = ReplayLeft(messages, replayIdx - 1)
            /\ mu' = FALSE
            /\ err' = "replay"
            /\ mainPc' = "r_ret"
            /\ replaySink' = NoHandle /\ replayIdx' = 0
            /\ UNCHANGED delivered
    /\ UNCHANGED <<process, restarting, hstate, maxSize, monVars, inVars, outVars,
                   envVars, cycleAdded, cycle, harnessVars>>

\* Replay, lines 52-54: every write succeeded; clear the buffer, unlock.
RReplayDone ==
    /\ mainPc = "r_replay"
    /\ replayIdx > Len(messages)
    /\ messages' = ReplayLeft(messages, Len(messages))
    /\ mu' = FALSE
    /\ err' = "ok"
    /\ mainPc' = "r_ret"
    /\ replaySink' = NoHandle /\ replayIdx' = 0
    /\ UNCHANGED <<process, restarting, hstate, maxSize, monVars, inVars, outVars,
                   envVars, histVars, harnessVars>>

\* Mutant of FlagAfterRestart: the flag is cleared on the success path only.
FlagStuckOnError(e) == e # "ok"

\* The flag after restartPHP's deferred function ran, for a result e.
FlagAfterRestart(e) == FALSE

\* restartPHP, line 81: the deferred p.restarting = false, on every return.
RReturn ==
    /\ mainPc = "r_ret"
    /\ restarting' = FlagAfterRestart(err)
    /\ mainPc' = "r_log"
    /\ UNCHANGED <<process, hstate, bufVars, err, replaySink, replayIdx, monVars,
                   inVars, outVars, envVars, histVars, harnessVars>>

\* Run, lines 56-58: an error of restartPHP is logged; the loop goes round.
RLog ==
    /\ mainPc = "r_log"
    /\ err' = "none"
    /\ cycleAdded' = <<>>
    /\ cycle' = NoCycle
    /\ mainPc' = "loop"
    /\ UNCHANGED <<process, restarting, hstate, bufVars, replaySink, replayIdx,
                   monVars, inVars, outVars, envVars, delivered, harnessVars>>

\* Mutant of Shutdown: Run returns without stopping the worker.
ShutdownNoStop ==
    /\ mainPc = "loop"
    /\ cancelled
    /\ mainPc' = "returned"
    /\ UNCHANGED <<process, restarting, hstate, bufVars, err, replaySink, replayIdx,
                   monVars, inVars, outVars, envVars, histVars, harnessVars>>

\* Run, lines 59-62: cancellation observed; stop the worker, return nil.
Shutdown ==
    /\ mainPc = "loop"
    /\ cancelled
    /\ hstate' = Stopped(process)
    /\ mainPc' = "returned"
    /\ UNCHANGED <<process, restarting, bufVars, err, replaySink, replayIdx, monVars,
                   inVars, outVars, envVars, histVars, harnessVars>>

\* ------------------------------------------------------ monitorProcess
\* lines 183-187: return when cancelled, otherwise call p.process.Wait().
MonBegin ==
    /\ monPc = "top"
    /\ IF cancelled
       THEN monPc' = "done" /\ UNCHANGED monH
       ELSE monPc' = "wait" /\ monH' = process
    /\ UNCHANGED <<process, restarting, hstate, bufVars, mainVars, monErr, inVars,
                   outVars, envVars, histVars, harnessVars>>

\* line 187: Wait returns, with error e, once no worker of the handle runs.
MonWait(e) ==
    /\ monPc = "wait"
    /\ WaitReturns(monH)
    /\ monErr' = e
    /\ monPc' = "check"
    /\ UNCHANGED <<process, restarting, hstate, bufVars, mainVars, monH, inVars,
                   outVars, envVars, histVars, harnessVars>>

\* line 188: the exit is answered by a spawn when err != nil && !p.restarting.
MonRespawns(e, flag) == e /\ ~flag

MonCheck ==
    /\ monPc = "check"
    /\ monPc' = IF MonRespawns(monErr, restarting) THEN "new" ELSE "top"
    /\ monH' = NoHandle
    /\ monErr' = FALSE
    /\ UNCHANGED <<process, restarting, hstate, bufVars, mainVars, inVars, outVars,
                   envVars, histVars, harnessVars>>

\* line 193: p.process = NewPHPProcess().
MonNew ==
    /\ monPc = "new"
    /\ CanAlloc
    /\ process' = NewPHPProcess
    /\ hstate' = [hstate EXCEPT ![NewPHPProcess] = "new"]
    /\ monPc' = "start"
    /\ UNCHANGED <<restarting, bufVars, mainVars, monH, monErr, inVars, outVars,
                   envVars, histVars, harnessVars>>

\* Mutant of MonStart: the monitor gives up after a failed spawn.
MonStartGiveUp(ok) ==
    /\ monPc = "start"
    /\ hstate' = Started(process, ok)
    /\ events' = FailCount(process, ok)
    /\ monPc' = IF StartOk(process, ok) THEN "top" ELSE "done"
    /\ UNCHANGED <<process, restarting, bufVars, mainVars, monH, monErr, inVars,
                   outVars, cancelled, histVars, harnessVars>>

\* lines 195-198: start it; a failed spawn is logged and followed by a sleep.
MonStart(ok) ==
    /\ monPc = "start"
    /\ hstate' = Started(process, ok)
    /\ events' = FailCount(process, ok)
    /\ monPc' = IF StartOk(process, ok) THEN "top" ELSE "sleep"
    /\ UNCHANGED <<process, restarting, bufVars, mainVars, monH, monErr, inVars,
                   outVars, cancelled, histVars, harnessVars>>

\* line 197: time.Sleep(time.Second) is over; the loop goes round.
MonSleep ==
    /\ monPc = "sleep"
    /\ monPc' = "top"
    /\ UNCHANGED <<process, restarting, hstate, bufVars, mainVars, monH, monErr,
                   inVars, outVars, envVars, histVars, harnessVars>>

\* ---------------------------------------------------------- proxyStdin
\* lines 125-131: reader.Read returns the next chunk of the external input.
InRead ==
    /\ inPc = "read"
    /\ nextIn < MaxInput
    /\ nextIn' = nextIn + 1
    /\ message' = nextIn + 1
    /\ inPc' = "check"
    /\ UNCHANGED <<process, restarting, hstate, bufVars, mainVars, monVars, outVars,
                   envVars, histVars, harnessVars>>

\* lines 126-127 and 144-149: cancelled at the top of the loop, or the
\* external input is at its end.
InEnd ==
    /\ inPc = "read"
    /\ cancelled \/ nextIn = MaxInput
    /\ inPc' = "done"
    /\ UNCHANGED <<process, restarting, hstate, bufVars, mainVars, monVars, message,
                   nextIn, outVars, envVars, histVars, harnessVars>>

\* line 133: the route of a chunk when the flag reads as flag.
Route(flag) == IF flag THEN "add" ELSE "write"

\* line 133: if p.restarting.
InCheck ==
    /\ inPc = "check"
    /\ inPc' = Route(restarting)
    /\ UNCHANGED <<process, restarting, hstate, bufVars, mainVars, monVars, message,
                   nextIn, outVars, envVars, histVars, harnessVars>>

\* A restart cycle is running: restartPHP has been entered and not left.
InCycle == mainPc \in {"r_stop", "r_new", "r_start", "r_len", "r_call",
                       "r_replay", "r_ret"}

\* History: the chunks added during the running cycle and not evicted,
\* after an Add of m.
CycleAfterAdd(m) ==
    LET evicted == IF Len(messages) >= maxSize /\ Len(messages) > 0
                   THEN {messages[1]} ELSE {}
        kept == SelectSeq(cycleAdded, LAMBDA c : c \notin evicted)
    IN  IF InCycle THEN Append(kept, m) ELSE cycleAdded

\* Mutant of InAdd: Add does not take the buffer's lock.
InAddNoLock ==
    /\ inPc = "add"
    /\ messages' = Add(messages, maxSize, message)
    /\ cycleAdded' = CycleAfterAdd(message)
    /\ message' = 0
    /\ inPc' = "read"
    /\ UNCHANGED <<process, restarting, hstate, maxSize, mu, mainVars, monVars,
                   nextIn, outVars, envVars, delivered, cycle, harnessVars>>

\* line 135: p.buffer.Add(message), under the buffer's lock.
InAdd ==
    /\ inPc = "add"
    /\ ~mu
    /\ messages' = Add(messages, maxSize, message)
    /\ cycleAdded' = CycleAfterAdd(message)
    /\ message' = 0
    /\ inPc' = "read"
    /\ UNCHANGED <<process, restarting, hstate, maxSize, mu, mainVars, monVars,
                   nextIn, outVars, envVars, delivered, cycle, harnessVars>>

\* lines 138-141: write to the current handle's Stdin; an error ends the loop.
InWrite ==
    /\ inPc = "write"
    /\ IF WriteOk(process)
       THEN /\ delivered' = Append(delivered, [h |-> process, c |-> message])
            /\ inPc' = "read"
       ELSE /\ inPc' = "done"
            /\ UNCHANGED delivered
    /\ message' = 0
    /\ UNCHANGED <<process, restarting, hstate, bufVars, mainVars, monVars, nextIn,
                   outVars, envVars, cycleAdded, cycle, harnessVars>>

\* --------------------------------------------------------- proxyStdout
\* lines 159-163: return when cancelled, otherwise read p.process.Stdout().
OutBegin ==
    /\ outPc = "top"
    /\ IF cancelled
       THEN outPc' = "done" /\ UNCHANGED outH
       ELSE outPc' = "reading" /\ outH' = process
    /\ UNCHANGED <<process, restarting, hstate, bufVars, mainVars, monVars, inVars,
                   envVars, histVars, harnessVars>>

\* lines 164-169: the worker wrote a chunk; it goes to os.Stdout.
OutData ==
    /\ outPc = "reading"
    /\ ReadOk(outH)
    /\ outPc' = "top"
    /\ outH' = NoHandle
    /\ UNCHANGED <<process, restarting, hstate, bufVars, mainVars, monVars, inVars,
                   envVars, histVars, harnessVars>>

\* lines 170-175: the read fails or is at end of stream; the loop returns.
OutEnd ==
    /\ outPc = "reading"
    /\ ~ReadOk(outH)
    /\ outPc' = "done"
    /\ outH' = NoHandle
    /\ UNCHANGED <<process, restarting, hstate, bufVars, mainVars, monVars, inVars,
                   envVars, histVars, harnessVars>>

\* --------------------------------------------------------- environment
\* The worker of handle h exits on its own.
Crash(h) ==
    /\ IsLive(h)
    /\ events < MaxEvents
    /\ events' = events + 1
    /\ hstate' = [hstate EXCEPT ![h] = Exited(restarting)]
    /\ UNCHANGED <<process, restarting, bufVars, mainVars, monVars, inVars, outVars,
                   cancelled, histVars, harnessVars>>

\* main.go, lines 32-37: SIGINT or SIGTERM cancels the context.
Cancel ==
    /\ ~cancelled
    /\ mainPc \notin {"failed", "returned"}
    /\ cancelled' = TRUE
    /\ UNCHANGED <<process, restarting, hstate, bufVars, mainVars, monVars, inVars,
                   outVars, events, histVars, harnessVars>>

Next ==
    \/ \E ok \in SpawnOutcomes : RunStart(ok)
    \/ Tick
    \/ \E e \in StopOutcomes : RStop(e)
    \/ RNew
    \/ \E ok \in SpawnOutcomes : RStart(ok)
    \/ RLen
    \/ RReplayBegin
    \/ RReplayWrite
    \/ RReplayDone
    \/ RReturn
    \/ RLog
    \/ Shutdown
    \/ MonBegin
    \/ \E e \in WaitErrs(monH) : MonWait(e)
    \/ MonCheck
    \/ MonNew
    \/ \E ok \in SpawnOutcomes : MonStart(ok)
    \/ MonSleep
    \/ InRead
    \/ InEnd
    \/ InCheck
    \/ InAdd
    \/ InWrite
    \/ OutBegin
    \/ OutData
    \/ OutEnd
    \/ \E h \in Handles : Crash(h)
    \/ Cancel

Spec == Init /\ [][Next]_vars

\* ------------------------------------------------------ buffer harness
\* A MessageBuffer of any capacity 1..MaxCap, driven by one caller through
\* sequences of Add, Replay, Len and Clear calls.
BufInit == \E cap \in 1..MaxCap : InitWith(cap)

Chunks == 1..ByteVals

OpRecord(name, m, wrote, ok, len) ==
    [op |-> name, n |-> lastOp.n + 1, arg |-> m, before |-> messages,
     wrote |-> wrote, ok |-> ok, len |-> len]

\* The caller reads m into its read buffer, which it reuses for every
\* read (proxyStdin, lines 122-131), and calls b.Add(m) on it.
HAdd(m) ==
    /\ lastOp.n < MaxOps
    /\ messages' = Add(Overwrite(messages, m), maxSize, m)
    /\ added' = Append(added, m)
    /\ prevOp' = lastOp
    /\ lastOp' = OpRecord("add", m, <<>>, TRUE, 0)
    /\ UNCHANGED <<proxyVars, maxSize, mu>>

\* b.Replay(w) with a writer that accepts k writes and fails the next one.
HReplay(k) ==
    /\ lastOp.n < MaxOps
    /\ messages' = ReplayLeft(messages, k)
    /\ added' = IF k >= Len(messages) THEN <<>> ELSE added
    /\ prevOp' = lastOp
    /\ lastOp' = OpRecord("replay", k, ReplayWritten(messages, k),
                          k >= Len(messages), 0)
    /\ UNCHANGED <<proxyVars, maxSize, mu>>

\* b.Len()
HLen ==
    /\ lastOp.n < MaxOps
    /\ prevOp' = lastOp
    /\ lastOp' = OpRecord("len", 0, <<>>, TRUE, BufLen(messages))
    /\ UNCHANGED <<proxyVars, bufVars, added>>

\* b.Clear()
HClear ==
    /\ lastOp.n < MaxOps
    /\ messages' = Clear(messages)
    /\ added' = <<>>
    /\ prevOp' = lastOp
    /\ lastOp' = OpRecord("clear", 0, <<>>, TRUE, 0)
    /\ UNCHANGED <<proxyVars, maxSize, mu>>

BufNext ==
    \/ \E m \in Chunks : HAdd(m)
    \/ \E k \in 0..Len(messages) : HReplay(k)
    \/ HLen
    \/ HClear

BufSpec == BufInit /\ [][BufNext]_vars

\* ----------------------------------------------------------- fairness
\* Every goroutine that can take a step is scheduled; the select of Run
\* takes a ready case.  The environment (ticks, crashes, cancellation, input)
\* is not obliged to act.
MainStep ==
    \/ (\E e \in StopOutcomes : RStop(e)) \/ RNew \/ (\E ok \in SpawnOutcomes : RStart(ok)) \/ RLen
    \/ RReplayBegin \/ RReplayWrite \/ RReplayDone \/ RReturn \/ RLog \/ Shutdown

MonStep ==
    \/ MonBegin \/ (\E e \in WaitErrs(monH) : MonWait(e)) \/ MonCheck \/ MonNew
    \/ (\E ok \in SpawnOutcomes : MonStart(ok)) \/ MonSleep

FairSpec == Spec /\ WF_vars(MainStep) /\ WF_vars(MonStep)

\* ============================================================== claims
\* The chunks of a sequence, as a set.
Range(s) == {s[i] : i \in 1..Len(s)}

\* The chunks written to the input sink of handle h that are in set S, in
\* the order of the writes.
WrittenTo(h, S) ==
    LET hit(e) == e.h = h /\ e.c \in S
        sel == SelectSeq(delivered, hit)
    IN  [i \in 1..Len(sel) |-> sel[i].c]

\* The step of proxyStdin that writes a chunk to a worker's input sink.
DirectWrite == inPc = "write" /\ inPc' = "read"

\* C1: while the restart-in-progress flag is true, no chunk is written
\* directly to a worker input sink: every direct write of the input
\* forwarder happens with the flag false.
C1_NoDirectWriteWhileRestarting == [][DirectWrite => ~restarting]_vars

\* C2: when a restart cycle whose spawn and replay succeeded finishes (the
\* flag returns to false), the buffer is empty and every chunk added during
\* the cycle and not evicted has been written to the new worker's input
\* sink, in arrival order.
C2_BufferedReplayedAtCycleEnd ==
    [][(mainPc = "r_ret" /\ err = "ok" /\ mainPc' = "r_log")
         => /\ messages' = <<>>
            /\ WrittenTo(process, Range(cycleAdded)) = cycleAdded]_vars

\* C3: output forwarding resumes for a replacement worker: while a worker
\* spawned by a restart cycle or by crash recovery runs as the current
\* worker and no cancellation has arrived, the output forwarder has not
\* ended.
C3_OutputForwardingResumes ==
    (process # 1 /\ IsLive(process) /\ ~cancelled) => outPc \in {"top", "reading"}

\* C4: every unsolicited worker exit that happens while the flag is false
\* makes the crash monitor attempt a respawn, whatever the exit status: when
\* the monitor has looked at such an exit, it goes on to spawn.
C4_UnsolicitedExitRespawned ==
    [][(monPc = "check" /\ monPc' # "check" /\ hstate[monH] = "crashed")
         => monPc' = "new"]_vars

\* C5: the restart-in-progress flag is true exactly while a restart cycle is
\* executing: it is set when restartPHP is entered and is false again when
\* restartPHP has returned, whatever the result of the cycle.
C5_FlagOnlyDuringCycle == restarting <=> InCycle

\* C5 witness: a restart cycle ended in a spawn failure, and the flag is false.
C5_Witness == mainPc = "r_log" /\ err = "spawn" /\ ~restarting

\* C6: the buffer holds exactly the last min(n, C) chunks added, in arrival
\* order; its length never exceeds C, and an add on a full buffer evicts
\* exactly the oldest chunk before it appends the new one.
C6_LastChunksKept ==
    LET n == Len(added)
        k == Min(n, maxSize)
    IN  /\ Len(messages) <= maxSize
        /\ messages = SubSeq(added, n - k + 1, n)
        /\ (lastOp.op = "add" /\ Len(lastOp.before) = maxSize)
              => messages = Append(SubSeq(lastOp.before, 2, maxSize), lastOp.arg)

\* C6 witness: more chunks were added than a buffer of capacity 2 or more holds.
C6_Witness ==
    /\ maxSize >= 2
    /\ Len(added) > maxSize
    /\ lastOp.op = "add"
    /\ Len(lastOp.before) = maxSize

\* C7: a replay in which every write succeeds writes every buffered chunk
\* once, in arrival order, and leaves the buffer empty: a Len right after it
\* returns 0 and a second replay writes nothing.
C7_ReplayDrains ==
    /\ (lastOp.op = "replay" /\ lastOp.ok)
          => /\ lastOp.wrote = lastOp.before
             /\ messages = <<>>
    /\ (prevOp.op = "replay" /\ prevOp.ok /\ lastOp.op = "len") => lastOp.len = 0
    /\ (prevOp.op = "replay" /\ prevOp.ok /\ lastOp.op = "replay")
          => lastOp.wrote = <<>>

\* C7 witness: a successful replay of two or more chunks, followed by a
\* second replay.
C7_Witness ==
    /\ prevOp.op = "replay" /\ prevOp.ok /\ Len(prevOp.wrote) >= 2
    /\ lastOp.op = "replay"

C9_FirstSpawnFailureIsFatal ==
    mainPc = "failed"
      => /\ monPc = "off" /\ inPc = "off" /\ outPc = "off"
         /\ ~restarting
         /\ process = 1 /\ hstate[1] = "failed"
         /\ \A h \in Handles \ {1} : hstate[h] = "unalloc"
         /\ ~ENABLED Next

\* C9 witness: the first spawn failed.
C9_Witness == mainPc = "failed" /\ hstate[1] = "failed"

\* C10: the crash monitor never gives up: it ends only on cancellation, an
\* unexpected exit never makes Run return, and after a respawn attempt of
\* the monitor has failed to spawn (the monitor is in its back-off sleep
\* and the current handle has no worker) a live worker is eventually
\* restored unless cancellation arrives.
C10_RespawnRetried ==
    /\ [](monPc = "done" => cancelled)
    /\ [](mainPc = "returned" => cancelled)
    /\ ((monPc = "sleep" /\ hstate[process] = "failed")
          ~> (IsLive(process) \/ cancelled))

\* C10 witness: a worker crashed, a respawn failed, and a later respawn
\* restored a live worker.
C10_Witness ==
    /\ \E h \in Handles : hstate[h] = "crashed"
    /\ \E h \in Handles : hstate[h] = "failed"
    /\ IsLive(process)
    /\ ~cancelled

\* C11: an exit caused by the restart cycle's own stop is never answered by
\* the crash monitor: when the monitor has looked at the exit of a worker
\* that a restart cycle stopped, it goes back to waiting and does not spawn.
C11_CycleStopNotRespawned ==
    [][(monPc = "check" /\ monPc' # "check" /\ hstate[monH] = "stopped"
          /\ mainPc # "returned")
         => monPc' = "top"]_vars

\* C12: no activity observes a handle that is allocated and not yet
\* started: not the input forwarder when it writes, not the output forwarder
\* when it takes the handle to read from, not the monitor when it takes the
\* handle to wait on.
C12_NoHandleSeenMidReplacement ==
    [][/\ (inPc = "write" /\ inPc' # "write") => hstate[process] # "new"
       /\ (outPc = "top" /\ outPc' = "reading") => hstate[process] # "new"
       /\ (monPc = "top" /\ monPc' = "wait") => hstate[process] # "new"]_vars

\* C13: crash recovery runs under the restart-in-progress flag: from the
\* moment the monitor has decided to respawn until its spawn attempt is
\* over, the flag is true (so that input is buffered and then replayed).
C13_RecoveryUnderFlag == (monPc \in {"new", "start"}) => restarting

\* C14: a restart cycle runs stop, allocate, spawn, replay in that order: the
\* stop, failed or not, is followed by the allocation and the allocation by the
\* spawn; a replay begins only after the cycle's spawn succeeded and writes
\* to the input sink of the worker the cycle spawned; a failed spawn ends the
\* cycle with the buffer untouched and nothing written.
C14_CycleOrder ==
    [][/\ (mainPc = "r_stop" /\ mainPc' # "r_stop") => mainPc' = "r_new"
       /\ (mainPc = "r_new" /\ mainPc' # "r_new") => mainPc' = "r_start"
       /\ (mainPc # "r_replay" /\ mainPc' = "r_replay")
             => /\ cycle.h \in Handles
                /\ hstate[cycle.h] \notin {"new", "failed"}
                /\ replaySink' = cycle.h
       /\ (mainPc = "r_start" /\ mainPc' = "r_ret")
             => /\ err' = "spawn"
                /\ messages' = messages
                /\ delivered' = delivered
       /\ (mainPc = "r_ret" /\ err = "spawn" /\ mainPc' # "r_ret")
             => mainPc' = "r_log" /\ messages' = messages]_vars

\* C15: buffer operations exclude each other: while Replay holds the lock
\* nothing but Replay's own end changes the buffer; an Add runs only with
\* the lock free and its chunk is in the buffer afterwards; and a successful
\* Replay discards only chunks it has written to its sink.
C15_BufferOpsExclusive ==
    [][/\ (mu /\ messages' # messages)
             => (mainPc = "r_replay" /\ mainPc' = "r_ret")
       /\ (inPc = "add" /\ inPc' = "read")
             => /\ ~mu
                /\ messages'[Len(messages')] = message
       /\ (mainPc = "r_replay" /\ mainPc' = "r_ret" /\ err' = "ok")
             => /\ messages' = <<>>
                /\ \A i \in 1..Len(messages) :
                      \E j \in 1..Len(delivered) :
                         delivered[j] = [h |-> replaySink, c |-> messages[i]]]_vars

\* C15 witness: an Add is waiting for the lock while a Replay that has
\* already written a chunk is still running.
C15_Witness == inPc = "add" /\ mu /\ mainPc = "r_replay" /\ replayIdx > 1

\* C16: a write that fails during replay ends the replay with that error:
\* the step of Replay's loop that meets the failing write returns the error
\* and writes nothing; at that moment every chunk before the failing one has
\* been written to the sink once, in arrival order, and no chunk from the
\* failing one on has been written to it.
C16_ReplayStopsAtFailure ==
    [][(/\ mainPc = "r_replay"
        /\ replayIdx <= Len(messages)
        /\ ~WriteOk(replaySink)
        /\ (mainPc' # mainPc \/ replayIdx' # replayIdx))
         => LET before == SubSeq(messages, 1, replayIdx - 1)
                rest == SubSeq(messages, replayIdx, Len(messages))
            IN  /\ mainPc' = "r_ret"
                /\ err' = "replay"
                /\ delivered' = delivered
                /\ WrittenTo(replaySink, Range(before)) = before
                /\ WrittenTo(replaySink, Range(rest)) = <<>>]_vars

\* C16 witness: a replay of two or more chunks has failed after its first
\* chunk was written.
C16_Witness ==
    /\ mainPc = "r_ret" /\ err = "replay"
    /\ Len(messages) >= 2
    /\ \E j \in 1..Len(delivered) : delivered[j].c = messages[1]

C18_NoSpawnAfterReturn ==
    [][mainPc = "returned"
         => \A h \in Handles : hstate'[h] = "live" => hstate[h] = "live"]_vars

\* C19: input is never reordered or duplicated: the chunks written to worker
\* input sinks, in the order of the writes, are in arrival order, each at
\* most once.
C19_DeliveredInOrder ==
    \A i, j \in 1..Len(delivered) : i < j => delivered[i].c < delivered[j].c

\* C20: a replay that fails leaves the buffer exactly as it was before the
\* call: the same chunks in the same order, the chunks written before the
\* failure included.
C20_FailedReplayKeepsBuffer ==
    (lastOp.op = "replay" /\ ~lastOp.ok) => messages = lastOp.before

\* C20 witness: a replay failed after it had written a chunk.
C20_Witness ==
    /\ lastOp.op = "replay" /\ ~lastOp.ok
    /\ Len(lastOp.wrote) >= 1
    /\ Len(lastOp.before) >= 2

====
